---- MODULE Spec2Model ----
(***************************************************************************)
(* A model of otp-utils' core (src/src/core.ts): HOTP and TOTP code        *)
(* generation and the window-based verification search.                    *)
(*                                                                         *)
(* A string is the sequence of its characters; the only strings the core   *)
(* builds are decimal, so a character is a digit 0..9.  An options object  *)
(* is a function from key names to values, and the object spread           *)
(* {...a, ...b} is Spread(a, b).                                           *)
(***************************************************************************)
EXTENDS Integers, Sequences, FiniteSets, TLC

VARIABLES codec, op, args, code, result, calls

vars == <<codec, op, args, code, result, calls>>

(***************************************************************************)
(* Bounds of the model.                                                    *)
(***************************************************************************)
MaxCounter == 2
MaxWindow == 2

\* Every counter a call of the model can reach: the two-sided search starts
\* MaxWindow below counter 0, and codes are submitted from one step beyond
\* the widest window.
Counters == (0 - MaxWindow) .. (MaxCounter + MaxWindow + 1)

(***************************************************************************)
(* Digests.  The HMAC primitive is outside the core; the model holds the   *)
(* digests HMAC-SHA1 and HMAC-SHA256 compute for two ascii secrets: the    *)
(* RFC 4226 test secret, and one whose truncated value at counter 1 under  *)
(* sha1 is 5814.  core.ts hands negative counters to hmacHash like any     *)
(* other; what is hashed there depends on the counter codec: the 64-bit    *)
(* two's complement, or a hex string padded to 16 characters, which the    *)
(* hex decoder cuts at the sign, leaving seven zero bytes.                 *)
(***************************************************************************)
\* HMAC-SHA1 of "12345678901234567890" over the 8-byte big-endian counters 0 .. 9.
HmacSha1Rfc ==
  <<<<204, 147, 207, 24, 80, 141, 148, 147, 76, 100, 182, 93, 139, 167, 102, 127,
      183, 205, 228, 176>>,
    <<117, 164, 138, 25, 212, 203, 225, 0, 100, 78, 138, 193, 57, 126, 234, 116,
      122, 45, 51, 171>>,
    <<11, 172, 183, 250, 8, 47, 239, 48, 120, 34, 17, 147, 139, 193, 197, 231,
      4, 22, 255, 68>>,
    <<102, 194, 130, 39, 208, 58, 45, 85, 41, 38, 47, 240, 22, 161, 230, 239,
      118, 85, 126, 206>>,
    <<169, 4, 201, 0, 166, 75, 53, 144, 152, 116, 179, 62, 97, 197, 147, 138,
      142, 21, 237, 28>>,
    <<163, 126, 120, 61, 123, 114, 51, 192, 131, 212, 246, 41, 38, 199, 162, 95,
      35, 141, 3, 22>>,
    <<188, 156, 210, 133, 97, 4, 44, 131, 242, 25, 50, 77, 60, 96, 114, 86,
      192, 50, 114, 174>>,
    <<164, 251, 150, 12, 11, 192, 110, 30, 171, 184, 4, 229, 179, 151, 205, 196,
      180, 85, 150, 250>>,
    <<27, 60, 137, 246, 94, 108, 158, 136, 48, 18, 5, 40, 35, 68, 63, 4,
      139, 67, 50, 219>>,
    <<22, 55, 64, 152, 9, 166, 121, 220, 105, 130, 7, 49, 12, 140, 127, 192,
      114, 144, 217, 229>>>>

\* ... over the 64-bit two's complements of -1, -2, -3.
HmacSha1RfcTwos ==
  <<<<246, 22, 253, 102, 183, 240, 98, 144, 104, 107, 99, 32, 206, 179, 77, 101,
      177, 254, 147, 234>>,
    <<53, 17, 69, 204, 220, 7, 76, 170, 127, 238, 197, 215, 62, 145, 231, 251,
      173, 251, 50, 179>>,
    <<43, 93, 252, 216, 60, 168, 159, 148, 61, 189, 144, 157, 240, 54, 105, 38,
      167, 19, 86, 17>>>>

\* ... over seven zero bytes.
HmacSha1RfcCut ==
  <<204, 52, 141, 160, 73, 217, 121, 10, 8, 187, 28, 57, 17, 229, 166, 59,
    209, 107, 190, 69>>

\* HMAC-SHA256 of "12345678901234567890" over the 8-byte big-endian counters 0 .. 9.
HmacSha256Rfc ==
  <<<<74, 185, 141, 251, 179, 51, 163, 59, 21, 123, 172, 23, 92, 117, 52, 7,
      107, 129, 132, 203, 220, 89, 67, 121, 156, 148, 23, 61, 148, 103, 188, 249>>,
    <<236, 157, 79, 104, 123, 78, 254, 106, 204, 82, 16, 6, 114, 102, 11, 132,
      192, 231, 33, 11, 160, 56, 33, 65, 248, 236, 185, 7, 150, 202, 185, 18>>,
    <<236, 200, 19, 25, 195, 86, 104, 204, 78, 233, 70, 232, 193, 230, 27, 121,
      196, 214, 102, 176, 216, 250, 169, 113, 59, 37, 90, 92, 83, 169, 26, 153>>,
    <<5, 112, 84, 39, 201, 46, 208, 97, 188, 222, 238, 71, 27, 167, 232, 178,
      254, 180, 125, 31, 194, 214, 247, 163, 232, 229, 171, 112, 126, 60, 96, 3>>,
    <<233, 111, 192, 123, 152, 191, 237, 161, 82, 162, 144, 9, 112, 167, 224, 226,
      221, 108, 22, 181, 245, 70, 211, 173, 25, 56, 58, 168, 69, 82, 62, 94>>,
    <<217, 143, 12, 120, 122, 237, 76, 58, 233, 133, 162, 69, 224, 133, 88, 174,
      205, 86, 185, 210, 85, 229, 191, 10, 120, 86, 131, 232, 213, 34, 19, 29>>,
    <<249, 208, 38, 40, 140, 121, 0, 117, 175, 64, 76, 163, 28, 33, 200, 83,
      136, 12, 57, 159, 205, 16, 175, 193, 182, 52, 218, 236, 90, 225, 167, 50>>,
    <<230, 187, 203, 141, 185, 152, 7, 190, 157, 171, 48, 131, 0, 167, 25, 3,
      158, 184, 255, 93, 145, 122, 248, 179, 184, 255, 183, 227, 130, 19, 245, 242>>,
    <<225, 254, 204, 7, 160, 2, 128, 29, 54, 75, 85, 25, 112, 73, 248, 104,
      68, 91, 45, 241, 1, 251, 219, 79, 161, 171, 185, 85, 202, 228, 220, 236>>,
    <<245, 202, 77, 83, 105, 241, 154, 25, 40, 2, 241, 193, 45, 13, 77, 136,
      93, 168, 86, 249, 215, 131, 136, 229, 112, 174, 227, 28, 36, 126, 198, 125>>>>

\* ... over the 64-bit two's complements of -1, -2, -3.
HmacSha256RfcTwos ==
  <<<<133, 10, 151, 18, 104, 253, 124, 180, 249, 1, 168, 12, 77, 10, 37, 58,
      33, 63, 250, 143, 106, 42, 45, 227, 143, 71, 212, 9, 222, 148, 71, 137>>,
    <<94, 248, 27, 104, 236, 56, 159, 38, 45, 187, 11, 200, 245, 127, 28, 185,
      95, 203, 10, 62, 13, 177, 8, 130, 179, 97, 135, 121, 143, 89, 4, 141>>,
    <<56, 4, 58, 111, 58, 183, 143, 142, 45, 80, 204, 94, 192, 209, 87, 67,
      154, 8, 93, 234, 103, 105, 230, 236, 168, 201, 101, 133, 164, 76, 240, 155>>>>

\* ... over seven zero bytes.
HmacSha256RfcCut ==
  <<114, 166, 199, 10, 100, 161, 227, 165, 153, 67, 122, 14, 53, 107, 187, 251,
    51, 15, 25, 216, 66, 144, 127, 201, 219, 110, 224, 18, 19, 85, 114, 124>>

\* HMAC-SHA1 of "secret-11717" over the 8-byte big-endian counters 0 .. 9.
HmacSha1Low ==
  <<<<31, 5, 200, 140, 157, 189, 164, 138, 242, 112, 40, 80, 11, 210, 164, 102,
      37, 143, 124, 41>>,
    <<20, 30, 173, 18, 103, 243, 21, 88, 30, 0, 0, 22, 182, 200, 181, 148,
      197, 41, 206, 201>>,
    <<155, 227, 179, 141, 177, 120, 98, 6, 200, 131, 94, 217, 117, 91, 203, 157,
      149, 129, 89, 198>>,
    <<7, 146, 178, 46, 220, 231, 154, 224, 115, 22, 9, 119, 162, 90, 156, 83,
      174, 125, 7, 109>>,
    <<138, 244, 115, 108, 242, 213, 204, 251, 104, 7, 103, 52, 108, 34, 85, 204,
      177, 233, 10, 9>>,
    <<113, 166, 145, 102, 255, 66, 18, 119, 209, 85, 46, 203, 152, 140, 83, 136,
      119, 254, 83, 220>>,
    <<212, 44, 53, 162, 152, 205, 136, 37, 83, 5, 13, 44, 127, 66, 230, 143,
      193, 60, 90, 39>>,
    <<35, 213, 148, 136, 162, 155, 207, 224, 163, 250, 175, 196, 211, 157, 8, 77,
      221, 43, 144, 217>>,
    <<54, 211, 195, 191, 71, 196, 12, 212, 188, 101, 114, 43, 189, 252, 169, 96,
      174, 19, 231, 31>>,
    <<160, 102, 84, 197, 158, 220, 22, 10, 238, 69, 206, 93, 95, 114, 185, 191,
      20, 169, 142, 32>>>>

\* ... over the 64-bit two's complements of -1, -2, -3.
HmacSha1LowTwos ==
  <<<<242, 135, 137, 249, 54, 105, 117, 53, 186, 200, 127, 178, 224, 173, 163, 100,
      156, 13, 97, 161>>,
    <<61, 185, 39, 42, 19, 255, 112, 253, 40, 143, 43, 178, 235, 93, 175, 247,
      68, 184, 160, 147>>,
    <<245, 134, 155, 42, 200, 34, 204, 18, 186, 28, 242, 182, 248, 14, 218, 182,
      59, 105, 35, 62>>>>

\* ... over seven zero bytes.
HmacSha1LowCut ==
  <<247, 4, 60, 228, 95, 112, 221, 232, 237, 29, 212, 202, 23, 42, 63, 229,
    232, 44, 195, 220>>

\* HMAC-SHA256 of "secret-11717" over the 8-byte big-endian counters 0 .. 9.
HmacSha256Low ==
  <<<<57, 186, 91, 11, 26, 206, 8, 98, 153, 117, 219, 250, 0, 77, 255, 59,
      155, 16, 87, 120, 228, 130, 183, 57, 34, 101, 17, 16, 165, 117, 140, 130>>,
    <<183, 31, 151, 53, 96, 117, 26, 149, 146, 16, 89, 133, 33, 84, 248, 14,
      173, 0, 4, 219, 46, 166, 210, 227, 84, 160, 142, 69, 155, 39, 141, 129>>,
    <<110, 70, 252, 231, 174, 55, 36, 176, 179, 85, 220, 99, 27, 75, 0, 13,
      178, 65, 152, 64, 130, 203, 62, 142, 38, 87, 252, 233, 77, 89, 188, 3>>,
    <<241, 254, 170, 33, 59, 174, 251, 136, 133, 74, 17, 71, 181, 81, 78, 30,
      176, 106, 56, 16, 247, 86, 57, 209, 176, 144, 177, 234, 144, 26, 49, 123>>,
    <<172, 125, 110, 128, 53, 204, 118, 9, 165, 209, 131, 13, 79, 104, 186, 156,
      31, 85, 248, 59, 191, 213, 86, 218, 152, 181, 161, 49, 181, 107, 99, 167>>,
    <<20, 180, 122, 174, 194, 214, 14, 211, 143, 149, 2, 185, 26, 176, 32, 148,
      249, 167, 224, 225, 73, 113, 186, 179, 126, 177, 29, 155, 218, 246, 67, 114>>,
    <<136, 240, 70, 134, 102, 170, 48, 106, 205, 5, 202, 19, 141, 52, 250, 252,
      6, 10, 46, 217, 182, 47, 228, 101, 122, 151, 8, 11, 2, 22, 193, 15>>,
    <<138, 207, 135, 116, 171, 118, 77, 45, 129, 193, 114, 37, 136, 136, 175, 174,
      108, 57, 166, 92, 61, 195, 103, 207, 227, 67, 129, 211, 136, 192, 248, 194>>,
    <<78, 16, 23, 188, 167, 196, 114, 218, 202, 199, 156, 8, 9, 32, 122, 88,
      230, 247, 214, 208, 22, 36, 248, 242, 191, 233, 201, 237, 184, 255, 92, 219>>,
    <<16, 73, 196, 95, 169, 146, 55, 27, 155, 189, 151, 62, 219, 125, 235, 61,
      139, 132, 94, 36, 107, 142, 60, 254, 88, 203, 145, 147, 115, 154, 177, 168>>>>

\* ... over the 64-bit two's complements of -1, -2, -3.
HmacSha256LowTwos ==
  <<<<197, 32, 86, 23, 251, 181, 177, 159, 164, 246, 87, 206, 193, 112, 219, 36,
      193, 72, 60, 16, 26, 72, 82, 235, 47, 243, 64, 213, 127, 88, 170, 188>>,
    <<123, 150, 207, 30, 9, 198, 250, 70, 91, 141, 166, 34, 191, 41, 105, 169,
      163, 67, 108, 179, 52, 230, 163, 30, 88, 116, 192, 128, 113, 239, 28, 125>>,
    <<205, 46, 101, 248, 122, 66, 73, 8, 234, 90, 74, 185, 209, 252, 74, 110,
      52, 136, 145, 208, 130, 35, 164, 131, 236, 115, 198, 114, 205, 47, 139, 121>>>>

\* ... over seven zero bytes.
HmacSha256LowCut ==
  <<124, 13, 11, 173, 146, 9, 109, 56, 21, 60, 207, 171, 246, 11, 197, 14,
    47, 28, 12, 152, 16, 102, 156, 114, 144, 128, 158, 52, 204, 171, 47, 139>>

SecretRfc == "12345678901234567890"
SecretLow == "secret-11717"
Secrets == {SecretRfc, SecretLow}

\* The digests by secret and algorithm: at the counters 0 .. 9, at the
\* negative counters -1, -2, -3 under each codec.
HmacTable ==
  [s \in Secrets |->
     IF s = SecretRfc
     THEN [sha1 |-> [at |-> HmacSha1Rfc, twos |-> HmacSha1RfcTwos,
                     cut |-> HmacSha1RfcCut],
           sha256 |-> [at |-> HmacSha256Rfc, twos |-> HmacSha256RfcTwos,
                       cut |-> HmacSha256RfcCut]]
     ELSE [sha1 |-> [at |-> HmacSha1Low, twos |-> HmacSha1LowTwos,
                     cut |-> HmacSha1LowCut],
           sha256 |-> [at |-> HmacSha256Low, twos |-> HmacSha256LowTwos,
                       cut |-> HmacSha256LowCut]]]

(***************************************************************************)
(* Language primitives.                                                    *)
(***************************************************************************)
\* {...a, ...b}: the keys of both, b's value where both have the key.
Spread(a, b) == b @@ a

\* Number.prototype.toString() of a non-negative integer: its decimal
\* digits, most significant first, without leading zeros.
RECURSIVE NumberToString(_)
NumberToString(n) ==
  IF n < 10 THEN <<n>> ELSE Append(NumberToString(n \div 10), n % 10)

\* String.prototype.substr(start): from start to the end; a negative start
\* counts from the end and is clamped at the beginning of the string.
Substr(s, start) ==
  LET from == IF start < 0
              THEN (IF Len(s) + start < 0 THEN 0 ELSE Len(s) + start)
              ELSE (IF start > Len(s) THEN Len(s) ELSE start)
  IN  SubSeq(s, from + 1, Len(s))

\* A submitted code is a string [str |-> s] or, from an untyped caller, a
\* number [num |-> n]; code.toString() is the string itself or the number's
\* decimal form.
CodeToString(c) ==
  IF "num" \in DOMAIN c THEN NumberToString(c.num) ELSE c.str

(***************************************************************************)
(* ./internals                                                             *)
(***************************************************************************)
\* floor(time / step)
generateCounterFromTime(time, step) == time \div step

\* The HMAC digest of the encoded counter under the call's secret and
\* algorithm (both secrets of the model are ascii).
hmacHash(opts) ==
  LET table == HmacTable[opts.secret][opts.algorithm]
  IN  IF opts.counter >= 0 THEN table.at[opts.counter + 1]
      ELSE IF codec = "twos" THEN table.twos[0 - opts.counter]
      ELSE table.cut

\* RFC 4226 5.3: four bytes at the offset the last byte's low nibble names,
\* big-endian, top bit cleared.
dynamicTruncate(hash) ==
  LET offset == hash[Len(hash)] % 16
  IN  (hash[offset + 1] % 128) * 16777216
      + hash[offset + 2] * 65536
      + hash[offset + 3] * 256
      + hash[offset + 4]

(***************************************************************************)
(* hotpGenerate                                                            *)
(***************************************************************************)
DefaultDigits == 6
DefaultWindow == 0
DefaultStep == 30

hoptGenerateDefaults ==
  [encoding |-> "ascii", algorithm |-> "sha1", digits |-> DefaultDigits]

hotpGenerate(options) ==
  LET opts == Spread(hoptGenerateDefaults, options)
      hash == hmacHash(opts)
      value == dynamicTruncate(hash)
  IN  Substr(NumberToString(value), 0 - opts.digits)

(***************************************************************************)
(* hotpVerify.  A run is the result returned together with the counters at *)
(* which the search generated a code, in call order.                       *)
(***************************************************************************)
hotpVerifyDefaults == Spread(hoptGenerateDefaults, [window |-> DefaultWindow])

RECURSIVE hotpVerifyLoop(_, _)
hotpVerifyLoop(opts, c) ==
  IF c <= opts.counter + opts.window
  THEN LET generated == hotpGenerate(Spread(opts, [counter |-> c]))
       IN  IF generated = CodeToString(opts.code)
           THEN [result |-> [valid |-> TRUE, delta |-> c - opts.counter],
                 calls |-> <<c>>]
           ELSE LET rest == hotpVerifyLoop(opts, c + 1)
                IN  [result |-> rest.result, calls |-> <<c>> \o rest.calls]
  ELSE [result |-> [valid |-> FALSE], calls |-> <<>>]

\* hotpVerify with the loop bound written c < counter + window.
RECURSIVE hotpVerifyLoopExclusive(_, _)
hotpVerifyLoopExclusive(opts, c) ==
  IF c < opts.counter + opts.window
  THEN LET generated == hotpGenerate(Spread(opts, [counter |-> c]))
       IN  IF generated = CodeToString(opts.code)
           THEN [result |-> [valid |-> TRUE, delta |-> c - opts.counter],
                 calls |-> <<c>>]
           ELSE LET rest == hotpVerifyLoopExclusive(opts, c + 1)
                IN  [result |-> rest.result, calls |-> <<c>> \o rest.calls]
  ELSE [result |-> [valid |-> FALSE], calls |-> <<>>]

hotpVerifyExclusive(options) ==
  LET opts == Spread(hotpVerifyDefaults, options)
  IN  hotpVerifyLoopExclusive(opts, opts.counter)

\* hotpVerify without the early return: the search runs through the whole
\* window and the last match wins.
RECURSIVE hotpVerifyLoopLastMatch(_, _)
hotpVerifyLoopLastMatch(opts, c) ==
  IF c <= opts.counter + opts.window
  THEN LET generated == hotpGenerate(Spread(opts, [counter |-> c]))
           rest == hotpVerifyLoopLastMatch(opts, c + 1)
       IN  IF generated = CodeToString(opts.code) /\ ~rest.result.valid
           THEN [result |-> [valid |-> TRUE, delta |-> c - opts.counter],
                 calls |-> <<c>> \o rest.calls]
           ELSE [result |-> rest.result, calls |-> <<c>> \o rest.calls]
  ELSE [result |-> [valid |-> FALSE], calls |-> <<>>]

hotpVerifyLastMatch(options) ==
  LET opts == Spread(hotpVerifyDefaults, options)
  IN  hotpVerifyLoopLastMatch(opts, opts.counter)

hotpVerify(options) ==
  LET opts == Spread(hotpVerifyDefaults, options)
  IN  hotpVerifyLoop(opts, opts.counter)

(***************************************************************************)
(* totpGenerate, totpVerify                                                *)
(***************************************************************************)
totpGenerateDefaults ==
  [step |-> DefaultStep, digits |-> DefaultDigits,
   encoding |-> "ascii", algorithm |-> "sha1"]

\* totpGenerate with the spread written {...options, ...totpGenerateDefaults}.
totpGenerateDefaultsWin(options) ==
  LET opts == Spread(options, totpGenerateDefaults)
      counter == generateCounterFromTime(opts.time, opts.step)
  IN  hotpGenerate(Spread(opts, [counter |-> counter]))

totpGenerate(options) ==
  LET opts == Spread(totpGenerateDefaults, options)
      counter == generateCounterFromTime(opts.time, opts.step)
  IN  hotpGenerate(Spread(opts, [counter |-> counter]))

totpVerifyDefaults == Spread(totpGenerateDefaults, [window |-> DefaultWindow])

\* totpVerify with the spread written {...options, ...totpVerifyDefaults}.
totpVerifyDefaultsWin(options) ==
  LET opts == Spread(options, totpVerifyDefaults)
      counter0 == generateCounterFromTime(opts.time, opts.step)
      counter == counter0 - opts.window
      window == opts.window * 2
      run == hotpVerify(Spread(opts, [window |-> window, counter |-> counter]))
  IN  IF run.result.valid /\ "delta" \in DOMAIN run.result
      THEN [run EXCEPT !.result.delta = @ - opts.window]
      ELSE run

\* totpVerify without the window doubled.
totpVerifyNoDouble(options) ==
  LET opts == Spread(totpVerifyDefaults, options)
      counter0 == generateCounterFromTime(opts.time, opts.step)
      counter == counter0 - opts.window
      window == opts.window
      run == hotpVerify(Spread(opts, [window |-> window, counter |-> counter]))
  IN  IF run.result.valid /\ "delta" \in DOMAIN run.result
      THEN [run EXCEPT !.result.delta = @ - opts.window]
      ELSE run

\* totpVerify without the delta re-centered.
totpVerifyNoRecenter(options) ==
  LET opts == Spread(totpVerifyDefaults, options)
      counter0 == generateCounterFromTime(opts.time, opts.step)
      counter == counter0 - opts.window
      window == opts.window * 2
  IN  hotpVerify(Spread(opts, [window |-> window, counter |-> counter]))

\* totpVerify re-centering without its guard: on an invalid result
\* undefined - window stores NaN under delta.
totpVerifyUnguarded(options) ==
  LET opts == Spread(totpVerifyDefaults, options)
      counter0 == generateCounterFromTime(opts.time, opts.step)
      counter == counter0 - opts.window
      window == opts.window * 2
      run == hotpVerify(Spread(opts, [window |-> window, counter |-> counter]))
  IN  IF "delta" \in DOMAIN run.result
      THEN [run EXCEPT !.result.delta = @ - opts.window]
      ELSE [run EXCEPT !.result = Spread(@, [delta |-> "NaN"])]

totpVerify(options) ==
  LET opts == Spread(totpVerifyDefaults, options)
      counter0 == generateCounterFromTime(opts.time, opts.step)
      counter == counter0 - opts.window
      window == opts.window * 2
      run == hotpVerify(Spread(opts, [window |-> window, counter |-> counter]))
  IN  IF run.result.valid /\ "delta" \in DOMAIN run.result
      THEN [run EXCEPT !.result.delta = @ - opts.window]
      ELSE run

(***************************************************************************)
(* Inputs of the calls.                                                    *)
(***************************************************************************)
\* An option left out (the default applies) or given one of the values.
Optional(key, values) == {<<>>} \cup {key :> v : v \in values}

DigitsOptions == Optional("digits", {1, 10})
AlgorithmOptions == Optional("algorithm", {"sha256"})
WindowOptions == Optional("window", 0 .. MaxWindow)
StepOptions == Optional("step", {2, DefaultStep})

StepOf(o) == IF "step" \in DOMAIN o THEN o.step ELSE DefaultStep

\* The first and the last second of each step interval.
TimesAt(cs, step) == {c * step + r : c \in cs, r \in {0, step - 1}}

\* The options every call passes on to code generation.
KeyOptions ==
  {("secret" :> s) @@ a @@ d :
     s \in Secrets, a \in AlgorithmOptions, d \in DigitsOptions}

\* The codes a caller submits: the code of any counter under the call's
\* options, a code no counter generates, and a number.
SubmittedCodes(o) ==
  {[str |-> hotpGenerate(Spread(o, [counter |-> c]))] : c \in Counters}
    \cup {[str |-> <<9, 9>>], [num |-> 5814]}

(***************************************************************************)
(* The state machine.  The core keeps nothing between calls (every         *)
(* function is pure), so a call starts from the idle state: each call      *)
(* action is one whole call of the public interface, leaving its arguments *)
(* and what it returned, and Return is the caller moving on.               *)
(***************************************************************************)
NoResult == [valid |-> FALSE]

Init ==
  /\ codec \in {"twos", "cut"}
  /\ op = "none"
  /\ args = <<>>
  /\ code = <<>>
  /\ result = NoResult
  /\ calls = <<>>

HotpGenerateCall ==
  /\ op = "none"
  /\ \E c \in Counters, k \in KeyOptions :
    LET options == ("counter" :> c) @@ k
    IN  /\ op' = "hotpGenerate"
        /\ args' = options
        /\ code' = hotpGenerate(options)
        /\ calls' = <<>>
        /\ result' = NoResult
        /\ UNCHANGED codec

HotpVerifyCall ==
  /\ op = "none"
  /\ \E c \in 0 .. MaxCounter, k \in KeyOptions, w \in WindowOptions :
    \E submitted \in SubmittedCodes(k) :
      LET options == ("counter" :> c) @@ ("code" :> submitted) @@ k @@ w
          run == hotpVerify(options)
      IN  /\ op' = "hotpVerify"
          /\ args' = options
          /\ result' = run.result
          /\ calls' = run.calls
          /\ code' = <<>>
          /\ UNCHANGED codec

TotpGenerateCall ==
  /\ op = "none"
  /\ \E s \in StepOptions, k \in KeyOptions :
    \E t \in TimesAt(Counters, StepOf(s)) :
      LET options == ("time" :> t) @@ s @@ k
      IN  /\ op' = "totpGenerate"
          /\ args' = options
          /\ code' = totpGenerate(options)
          /\ calls' = <<>>
          /\ result' = NoResult
          /\ UNCHANGED codec

TotpVerifyCall ==
  /\ op = "none"
  /\ \E s \in StepOptions, k \in KeyOptions, w \in WindowOptions :
    \E t \in TimesAt(0 .. MaxCounter, StepOf(s)), submitted \in SubmittedCodes(k) :
      LET options == ("time" :> t) @@ ("code" :> submitted) @@ s @@ k @@ w
          run == totpVerify(options)
      IN  /\ op' = "totpVerify"
          /\ args' = options
          /\ result' = run.result
          /\ calls' = run.calls
          /\ code' = <<>>
          /\ UNCHANGED codec

Return ==
  /\ op # "none"
  /\ op' = "none"
  /\ args' = <<>>
  /\ code' = <<>>
  /\ result' = NoResult
  /\ calls' = <<>>
  /\ UNCHANGED codec

Next ==
  \/ HotpGenerateCall
  \/ HotpVerifyCall
  \/ TotpGenerateCall
  \/ TotpVerifyCall
  \/ Return

Spec == Init /\ [][Next]_vars

(***************************************************************************)
(* What the claims speak of, read off the state a call left.               *)
(***************************************************************************)
\* The value an option of the call takes: the one given, else the default.
Option(key, default) == IF key \in DOMAIN args THEN args[key] ELSE default

Window == Option("window", DefaultWindow)
Step == Option("step", DefaultStep)

\* The code hotpGenerate returns at counter c under the call's options.
CodeAt(c) ==
  hotpGenerate(("counter" :> c)
                 @@ [k \in DOMAIN args \cap {"secret", "algorithm", "digits"}
                       |-> args[k]])

\* The code totpGenerate returns at time t under the call's options.
TotpCodeAt(t) ==
  totpGenerate(("time" :> t)
                 @@ [k \in DOMAIN args
                            \cap {"secret", "algorithm", "digits", "step"}
                       |-> args[k]])

\* The submitted code as the comparison reads it.
Submitted == CodeToString(args.code)

\* The counter n whose step interval [n*step, (n+1)*step) holds the time.
StepIntervalOf(time, step) ==
  CHOOSE n \in Counters : n * step <= time /\ time < (n + 1) * step

RECURSIVE Pow10(_)
Pow10(n) == IF n = 0 THEN 1 ELSE 10 * Pow10(n - 1)

\* value mod 10^n for a truncated value: below 2^31, hence below 10^10.
ModPow10(value, n) == IF n >= 10 THEN value ELSE value % Pow10(n)

\* s left-padded with '0' to n characters.
PadStart(s, n) ==
  IF Len(s) >= n THEN s
  ELSE [i \in 1 .. n |-> IF i <= n - Len(s) THEN 0 ELSE s[i - (n - Len(s))]]

(***************************************************************************)
(* C1.  hotpGenerate returns the decimal rendering of the truncated value  *)
(* modulo 10^digits, left-padded with '0' to exactly digits characters.    *)
(***************************************************************************)
C1_PaddedModulus ==
  op = "hotpGenerate" =>
    LET digits == Option("digits", DefaultDigits)
        value == dynamicTruncate(hmacHash(Spread(hoptGenerateDefaults, args)))
    IN  /\ Len(code) = digits
        /\ code = PadStart(NumberToString(ModPow10(value, digits)), digits)

(***************************************************************************)
(* C2.  hotpVerify of the code hotpGenerate returns at the same counter,   *)
(* under the same options and window 0, returns {valid: true, delta: 0}.   *)
(***************************************************************************)
C2_HotpRoundTrip ==
  (/\ op = "hotpVerify"
   /\ Window = 0
   /\ args.code = [str |-> CodeAt(args.counter)])
    => result = [valid |-> TRUE, delta |-> 0]

C2_Witness ==
  /\ op = "hotpVerify"
  /\ "window" \in DOMAIN args
  /\ args.window = 0
  /\ args.code = [str |-> CodeAt(args.counter)]
  /\ result.valid

(***************************************************************************)
(* C3 as stated.  hotpVerify of the code generated at counter + k with     *)
(* window w is valid with delta = k when k <= w and invalid otherwise.     *)
(***************************************************************************)
C3_DeltaIsK ==
  op = "hotpVerify" =>
    \A k \in 0 .. (MaxWindow + 1) :
      args.code = [str |-> CodeAt(args.counter + k)] =>
        IF k <= Window
        THEN result = [valid |-> TRUE, delta |-> k]
        ELSE result = [valid |-> FALSE]

(***************************************************************************)
(* C3 as amended.  hotpVerify of the code generated at counter + k with    *)
(* window w is valid exactly when some j in 0..w has the code of           *)
(* counter + j equal to the code of counter + k, and delta is the least    *)
(* such j; so k <= w gives a valid result with delta <= k.                 *)
(***************************************************************************)
C3_DeltaIsFirstEqualCode ==
  op = "hotpVerify" =>
    \A k \in 0 .. (MaxWindow + 1) :
      args.code = [str |-> CodeAt(args.counter + k)] =>
        LET same == {j \in 0 .. Window :
                       CodeAt(args.counter + j) = CodeAt(args.counter + k)}
        IN  /\ result.valid <=> same # {}
            /\ result.valid =>
                 /\ result.delta \in same
                 /\ \A j \in same : result.delta <= j
            /\ k <= Window => (result.valid /\ result.delta <= k)

C3_Witness ==
  /\ op = "hotpVerify"
  /\ Window = 1
  /\ args.code = [str |-> CodeAt(args.counter + 1)]
  /\ result = [valid |-> TRUE, delta |-> 0]

(***************************************************************************)
(* C4.  hotpVerify generates codes at counter, counter + 1, ... in         *)
(* increasing order, never beyond counter + window, and stops at the first *)
(* match; a valid result has 0 <= delta <= window, the code of             *)
(* counter + delta is the submitted code and no earlier counter of the     *)
(* search generates it.                                                    *)
(***************************************************************************)
C4_ForwardFirstMatch ==
  op = "hotpVerify" =>
    /\ Len(calls) <= Window + 1
    /\ \A i \in DOMAIN calls : calls[i] = args.counter + i - 1
    /\ \A i \in DOMAIN calls : i < Len(calls) => CodeAt(calls[i]) # Submitted
    /\ result.valid =>
         /\ result.delta \in 0 .. Window
         /\ CodeAt(args.counter + result.delta) = Submitted
         /\ \A c \in args.counter .. (args.counter + result.delta - 1) :
              CodeAt(c) # Submitted
         /\ Len(calls) = result.delta + 1
    /\ ~result.valid => Len(calls) = Window + 1

C4_Witness ==
  /\ op = "hotpVerify"
  /\ Window = 1
  /\ CodeAt(args.counter + 1) = Submitted
  /\ result = [valid |-> TRUE, delta |-> 0]
  /\ calls = <<args.counter>>

(***************************************************************************)
(* C5.  A failed verification is a result value: every result of           *)
(* hotpVerify and totpVerify carries delta exactly when valid is true, and *)
(* hotpVerify returns {valid: false} when no counter of the window         *)
(* generates the submitted code.                                           *)
(***************************************************************************)
C5_DeltaIffValid ==
  /\ op \in {"hotpVerify", "totpVerify"} =>
       /\ DOMAIN result \subseteq {"valid", "delta"}
       /\ result.valid \in BOOLEAN
       /\ "delta" \in DOMAIN result <=> result.valid
  /\ (/\ op = "hotpVerify"
      /\ \A c \in args.counter .. (args.counter + Window) : CodeAt(c) # Submitted)
       => result = [valid |-> FALSE]

C5_Witness ==
  /\ op = "totpVerify"
  /\ Window = 1
  /\ args.code = [str |-> <<9, 9>>]
  /\ result = [valid |-> FALSE]
  /\ Len(calls) = 3

(***************************************************************************)
(* C6.  totpVerify returns what hotpVerify returns at                      *)
(* counter = counter0 - w with window = 2*w, w subtracted from delta when  *)
(* valid; a valid delta lies in -w..w and is the matched counter minus     *)
(* counter0.                                                               *)
(***************************************************************************)
C6_TotpIsShiftedHotp ==
  op = "totpVerify" =>
    LET counter0 == StepIntervalOf(args.time, Step)
        inner == hotpVerify(Spread(args, [counter |-> counter0 - Window,
                                          window |-> 2 * Window]))
    IN  /\ result = IF inner.result.valid
                    THEN [valid |-> TRUE, delta |-> inner.result.delta - Window]
                    ELSE inner.result
        /\ calls = inner.calls
        /\ result.valid =>
             /\ 0 - Window <= result.delta
             /\ result.delta <= Window
             /\ result.delta = calls[Len(calls)] - counter0
             /\ CodeAt(counter0 + result.delta) = Submitted

C6_Witness ==
  /\ op = "totpVerify"
  /\ Window = 1
  /\ result = [valid |-> TRUE, delta |-> 0]
  /\ calls = <<StepIntervalOf(args.time, Step) - 1, StepIntervalOf(args.time, Step)>>

C8_TotpRoundTrip ==
  (/\ op = "totpVerify"
   /\ "window" \notin DOMAIN args
   /\ "step" \in DOMAIN args
   /\ args.step = 30
   /\ args.code = [str |-> TotpCodeAt(args.time)])
    => result = [valid |-> TRUE, delta |-> 0]

C8_Witness ==
  /\ op = "totpVerify"
  /\ "window" \notin DOMAIN args
  /\ "step" \in DOMAIN args
  /\ args.step = 30
  /\ "digits" \in DOMAIN args
  /\ args.time = 59
  /\ args.code = [str |-> TotpCodeAt(args.time)]
  /\ result.valid

(***************************************************************************)
(* C9.  For time >= 0, totpGenerate returns the code hotpGenerate returns  *)
(* at counter floor(time / step) under the same digits: the counter n of   *)
(* the step interval [n*step, (n+1)*step) that holds the time.             *)
(***************************************************************************)
C9_TotpGenerateIsHotpAtFloor ==
  (op = "totpGenerate" /\ args.time >= 0) =>
    /\ \E n \in Counters : n * Step <= args.time /\ args.time < (n + 1) * Step
    /\ \A n \in Counters :
         (n * Step <= args.time /\ args.time < (n + 1) * Step) => code = CodeAt(n)

C9_Witness ==
  /\ op = "totpGenerate"
  /\ args.time = 59
  /\ Step = 30
  /\ code = CodeAt(1)
  /\ CodeAt(0) # CodeAt(1)

(***************************************************************************)
(* C10.  Every counter at which totpVerify generates a code is a           *)
(* non-negative integer.                                                   *)
(***************************************************************************)
C10_CountersNonNegative ==
  op = "totpVerify" => \A i \in DOMAIN calls : calls[i] >= 0

====
